---- MODULE Spec2Model ----
(***************************************************************************)
(* TNID WebAssembly bindings (packages/wasm/rust/src/lib.rs).              *)
(*                                                                         *)
(* The bindings are ten pure functions from strings to strings.  Each one  *)
(* parses its arguments, calls into the `tnid` crate and renders the       *)
(* answer with to_string.  The crate itself is not part of the sources, so *)
(* the operators that stand for it (NameStr_new, DynamicTnid_*,            *)
(* EncryptionKey_from_hex) follow the written specification; the wrappers  *)
(* (parse, parse_uuid, new_v0, ...) follow lib.rs line by line.            *)
(*                                                                         *)
(* Widths are scaled: a u64 is RandomHexLen hex digits wide instead of 16, *)
(* a key KeyHexLen digits instead of 32.  Strings are sequences of         *)
(* one-character strings.                                                  *)
(***************************************************************************)
EXTENDS Integers, Sequences, FiniteSets

\* One call of one binding: pc is "call" before it runs and "done" after;
\* op names the binding, name..uuid are its arguments (the unused ones are
\* empty), result is the returned Result<String, JsError> and valid the
\* boolean is_valid_name returns.
VARIABLES pc, op, name, tnid, hex, ts, key, uuid, result, valid

vars == <<pc, op, name, tnid, hex, ts, key, uuid, result, valid>>

\* ------------------------------------------------------------ bounds

\* Hex digits of a u64 (16 in lib.rs:39); a u128 takes twice as many (lib.rs:61).
RandomHexLen == 1

\* Hex digits of an encryption key (32 in lib.rs:106).
KeyHexLen == 2

\* Longest valid name (lib.rs:140, "1-4 characters").
MaxNameLen == 4

\* ------------------------------------------------------------ strings

RECURSIVE Pow(_, _)
Pow(b, n) == IF n = 0 THEN 1 ELSE b * Pow(b, n - 1)

\* All strings over the characters cs of length lo..hi.
StringsOver(cs, lo, hi) == UNION {[1..n -> cs] : n \in lo..hi}

\* Index of the first occurrence of c in s, 0 when absent.
RECURSIVE IndexOf(_, _, _)
IndexOf(s, c, i) ==
    IF i > Len(s) THEN 0
    ELSE IF s[i] = c THEN i
    ELSE IndexOf(s, c, i + 1)

\* Position of c in the alphabet a (1-based), 0 when absent.
Position(a, c) == IndexOf(a, c, 1)

\* A Result<String, JsError>: the string, or the error's message.
Ok(s) == [ok |-> TRUE, val |-> s, err |-> "none"]
Err(e) == [ok |-> FALSE, val |-> <<>>, err |-> e]

\* ------------------------------------------------------------ hexadecimal

HexLower == <<"0", "1", "2", "3", "4", "5", "6", "7",
              "8", "9", "a", "b", "c", "d", "e", "f">>
HexUpper == <<"0", "1", "2", "3", "4", "5", "6", "7",
              "8", "9", "A", "B", "C", "D", "E", "F">>
HexRadix == Len(HexLower)

\* char::to_digit(16): the digit's value, or -1 for a character that is none.
HexDigitValue(c) ==
    IF Position(HexLower, c) > 0 THEN Position(HexLower, c) - 1
    ELSE IF Position(HexUpper, c) > 0 THEN Position(HexUpper, c) - 1
    ELSE -1

IsHexString(s) == \A i \in 1..Len(s) : HexDigitValue(s[i]) >= 0

\* Value of a string of hex digits, most significant first.
RECURSIVE HexValue(_)
HexValue(s) ==
    IF Len(s) = 0 THEN 0
    ELSE HexValue(SubSeq(s, 1, Len(s) - 1)) * HexRadix + HexDigitValue(s[Len(s)])

\* n rendered as exactly len digits of the alphabet a, most significant first.
RECURSIVE Digits(_, _, _)
Digits(a, n, len) ==
    IF len = 0 THEN <<>>
    ELSE Append(Digits(a, n \div Len(a), len - 1), a[(n % Len(a)) + 1])

\* uN::from_str_radix(s, 16): an optional leading "+", then one or more hex
\* digits of either case.  The wrappers only call it on strings whose length
\* they have checked, so the value always fits the integer type.
from_str_radix(s) ==
    LET body == IF Len(s) > 0 /\ s[1] = "+" THEN Tail(s) ELSE s
    IN  IF Len(s) = 0 THEN [ok |-> FALSE, num |-> 0,
                            err |-> "cannot parse integer from empty string"]
        ELSE IF Len(body) = 0 \/ ~IsHexString(body)
             THEN [ok |-> FALSE, num |-> 0, err |-> "invalid digit found in string"]
        ELSE [ok |-> TRUE, num |-> HexValue(body), err |-> "none"]

\* ------------------------------------------------------------ integer widths

U64Space == Pow(HexRadix, RandomHexLen)
U64Max == U64Space - 1
U128Space == U64Space * U64Space

\* An f64 argument: NaN, or an integer-valued double.
F64(v) == [nan |-> FALSE, val |-> v]
NaN == [nan |-> TRUE, val |-> 0]

\* `x as u64` on an f64: saturating, NaN to 0.
F64AsU64(x) ==
    IF x.nan THEN 0
    ELSE IF x.val < 0 THEN 0
    ELSE IF x.val > U64Max THEN U64Max
    ELSE x.val

\* ------------------------------------------------------------ tnid::NameStr

\* The characters a name may hold (a sample of the crate's allowed set).
NameAlphabet == <<"a", "b", "r", "s", "u">>

IsNameChar(c) == Position(NameAlphabet, c) > 0

\* NameStr::new: the length is checked first, then every character.
NameStr_new(candidate) ==
    IF Len(candidate) = 0 \/ Len(candidate) > MaxNameLen
    THEN [ok |-> FALSE, name |-> <<>>, err |-> "InvalidLength"]
    ELSE IF \E i \in 1..Len(candidate) : ~IsNameChar(candidate[i])
    THEN [ok |-> FALSE, name |-> <<>>, err |-> "InvalidCharacter"]
    ELSE [ok |-> TRUE, name |-> candidate, err |-> "none"]

\* ------------------------------------------------------------ tnid::TnidVariant

\* The four variants, in the order of their tag values 0..3.
Variants == <<"V0", "V1", "V2", "V3">>
TagSpace == Len(Variants)

TagOfVariant(v) == Position(Variants, v) - 1
VariantOfTag(t) == Variants[t + 1]

\* ------------------------------------------------------------ payload codec

\* The payload is two u64 halves.  The tag sits in the top bits of the low
\* half (where a UUID keeps its variant field); TagUnit is the weight of the
\* tag's lowest bit.
PayloadSpace == U128Space
TagUnit == U64Space \div TagSpace

TagBits(payload) == (payload % U64Space) \div TagUnit

\* The payload with its tag positions overwritten by the tag of variant v.
Overlay(payload, v) ==
    (payload \div U64Space) * U64Space
        + TagOfVariant(v) * TagUnit
        + (payload % TagUnit)

encode_v0(timestamp_ms, random) == Overlay(timestamp_ms * U64Space + random, "V0")

encode_v1(random) == Overlay(random, "V1")

\* decode: the tag first, then the fields around it.
decode(payload) ==
    [variant |-> VariantOfTag(TagBits(payload)),
     timestamp_ms |-> payload \div U64Space,
     random |-> payload % TagUnit]

\* ------------------------------------------------------------ tnid::DynamicTnid

Tnid(n, v, p) == [name |-> n, variant |-> v, payload |-> p]

DynamicTnid_new_v0_with_parts(n, timestamp_ms, random) ==
    Tnid(n, "V0", encode_v0(timestamp_ms, random))

DynamicTnid_new_v1_with_random(n, random) ==
    Tnid(n, "V1", encode_v1(random))

DynamicTnid_variant(t) == t.variant

DynamicTnid_name(t) == t.name

\* ------------------------------------------------------------ text codec

\* The native form is  <name> "." <variant token> <payload digits>.
Separator == "."
VariantTokens == <<"0", "1", "2", "3">>

\* The compact alphabet of the payload digits (a sample; not hex).
DataAlphabet == <<"w", "x", "y", "z">>
RECURSIVE DigitsNeeded(_, _)
DigitsNeeded(space, radix) ==
    IF space <= 1 THEN 0 ELSE 1 + DigitsNeeded(space \div radix, radix)
DataLen == DigitsNeeded(PayloadSpace, Len(DataAlphabet))

RECURSIVE DataValue(_)
DataValue(s) ==
    IF Len(s) = 0 THEN 0
    ELSE DataValue(SubSeq(s, 1, Len(s) - 1)) * Len(DataAlphabet)
             + (Position(DataAlphabet, s[Len(s)]) - 1)

DynamicTnid_to_string(t) ==
    t.name \o <<Separator>>
           \o <<VariantTokens[TagOfVariant(t.variant) + 1]>>
           \o Digits(DataAlphabet, t.payload, DataLen)

NoTnid == Tnid(<<>>, "V0", 0)
TnidOk(t) == [ok |-> TRUE, tnid |-> t, err |-> "none"]
TnidErr(e) == [ok |-> FALSE, tnid |-> NoTnid, err |-> e]

DynamicTnid_parse_tnid_string(s) ==
    LET dot == IndexOf(s, Separator, 1)
        n == SubSeq(s, 1, dot - 1)
        rest == SubSeq(s, dot + 1, Len(s))
        data == Tail(rest)
        v == Variants[Position(VariantTokens, rest[1])]
        p == DataValue(data)
    IN  IF dot = 0 THEN TnidErr("MalformedString")
        ELSE IF ~NameStr_new(n).ok THEN TnidErr("MalformedString")
        ELSE IF Len(rest) # 1 + DataLen THEN TnidErr("MalformedString")
        ELSE IF Position(VariantTokens, rest[1]) = 0 THEN TnidErr("MalformedString")
        ELSE IF \E i \in 1..Len(data) : Position(DataAlphabet, data[i]) = 0
        THEN TnidErr("MalformedString")
        ELSE IF VariantOfTag(TagBits(p)) # v THEN TnidErr("UnknownVariant")
        ELSE TnidOk(Tnid(n, v, p))

\* The UUID form is  <name digits> "-" <high half> "-" <low half>  in hex.
\* parse_uuid_string is given the text alone (lib.rs:24), so the text carries
\* the name: one hex digit per name slot, 0 for an unused slot.
Hyphen == "-"
U64HexLen == RandomHexLen

NameDigit(n, i) == IF i <= Len(n) THEN Position(NameAlphabet, n[i]) ELSE 0

HexAlphabet(case) == IF case = "Upper" THEN HexUpper ELSE HexLower

DynamicTnid_to_uuid_string(t, case) ==
    [i \in 1..MaxNameLen |-> HexAlphabet(case)[NameDigit(t.name, i) + 1]]
        \o <<Hyphen>>
        \o Digits(HexAlphabet(case), t.payload \div U64Space, U64HexLen)
        \o <<Hyphen>>
        \o Digits(HexAlphabet(case), t.payload % U64Space, U64HexLen)

UuidLen == MaxNameLen + 1 + U64HexLen + 1 + U64HexLen

\* The name spelled by the name digits d: the digits before the first 0.
RECURSIVE NameOfDigits(_)
NameOfDigits(d) ==
    IF Len(d) = 0 \/ HexDigitValue(d[1]) = 0 THEN <<>>
    ELSE <<NameAlphabet[HexDigitValue(d[1])]>> \o NameOfDigits(Tail(d))

DynamicTnid_parse_uuid_string(s) ==
    LET nd == SubSeq(s, 1, MaxNameLen)
        hi == SubSeq(s, MaxNameLen + 2, MaxNameLen + 1 + U64HexLen)
        lo == SubSeq(s, MaxNameLen + U64HexLen + 3, UuidLen)
        n == NameOfDigits(nd)
        p == HexValue(hi) * U64Space + HexValue(lo)
    IN  IF Len(s) # UuidLen THEN TnidErr("MalformedUuid")
        ELSE IF s[MaxNameLen + 1] # Hyphen \/ s[MaxNameLen + U64HexLen + 2] # Hyphen
        THEN TnidErr("MalformedUuid")
        ELSE IF ~IsHexString(nd \o hi \o lo) THEN TnidErr("MalformedUuid")
        ELSE IF \E i \in 1..MaxNameLen : HexDigitValue(nd[i]) > Len(NameAlphabet)
        THEN TnidErr("MalformedUuid")
        ELSE IF Len(n) = 0
                \/ \E i \in (Len(n) + 1)..MaxNameLen : HexDigitValue(nd[i]) # 0
        THEN TnidErr("MalformedUuid")
        ELSE TnidOk(Tnid(n, VariantOfTag(TagBits(p)), p))

\* ------------------------------------------------------------ tnid::encryption

\* EncryptionKey::from_hex: exactly KeyHexLen hex digits.
EncryptionKey_from_hex(h) ==
    IF Len(h) # KeyHexLen \/ ~IsHexString(h)
    THEN [ok |-> FALSE, key |-> 0, err |-> "InvalidKeyLength"]
    ELSE [ok |-> TRUE, key |-> HexValue(h), err |-> "none"]

\* The bits of a payload outside the tag positions, as one number, and back.
BlockSpace == U64Space * TagUnit
Block(payload) == (payload \div U64Space) * TagUnit + (payload % TagUnit)
Unblock(b, v) == Overlay((b \div TagUnit) * U64Space + (b % TagUnit), v)

\* The keyed permutation of the block and its inverse.
Permute(b, k) == (b + k) % BlockSpace
Unpermute(b, k) == (b + BlockSpace - (k % BlockSpace)) % BlockSpace

DynamicTnid_encrypt_v0_to_v1(t, k) ==
    IF t.variant # "V0" THEN TnidErr("WrongVariant")
    ELSE TnidOk(Tnid(t.name, "V1", Unblock(Permute(Block(t.payload), k), "V1")))

DynamicTnid_decrypt_v1_to_v0(t, k) ==
    IF t.variant # "V1" THEN TnidErr("WrongVariant")
    ELSE TnidOk(Tnid(t.name, "V0", Unblock(Unpermute(Block(t.payload), k), "V0")))

\* ------------------------------------------------------------ the bindings

\* parse as it would be had it returned the name (the last line of get_name).
parse_returning_name(tnid_str) ==
    LET t == DynamicTnid_parse_tnid_string(tnid_str)
    IN  IF ~t.ok THEN Err(t.err)
        ELSE Ok(DynamicTnid_name(t.tnid))

\* parse as it would be had it dropped the error and echoed its argument.
parse_echoing_invalid(tnid_str) ==
    LET t == DynamicTnid_parse_tnid_string(tnid_str)
    IN  IF ~t.ok THEN Ok(tnid_str)
        ELSE Ok(DynamicTnid_to_string(t.tnid))

\* lib.rs:16  parse
parse(tnid_str) ==
    LET t == DynamicTnid_parse_tnid_string(tnid_str)
    IN  IF ~t.ok THEN Err(t.err)
        ELSE Ok(DynamicTnid_to_string(t.tnid))

\* lib.rs:23  parse_uuid
parse_uuid(uuid_str) ==
    LET t == DynamicTnid_parse_uuid_string(uuid_str)
    IN  IF ~t.ok THEN Err(t.err)
        ELSE Ok(DynamicTnid_to_string(t.tnid))

\* new_v0 as it would be with the two parts handed over in the wrong order.
new_v0_parts_swapped(n, timestamp_ms, random_hex) ==
    LET nm == NameStr_new(n)
        random == from_str_radix(random_hex)
    IN  IF ~nm.ok THEN Err(nm.err)
        ELSE IF Len(random_hex) # RandomHexLen
        THEN Err("random_hex must be exactly 16 hex characters (8 bytes)")
        ELSE IF ~random.ok THEN Err(random.err)
        ELSE Ok(DynamicTnid_to_string(
                 DynamicTnid_new_v0_with_parts(nm.name, random.num,
                                               F64AsU64(timestamp_ms))))

\* lib.rs:35  new_v0
new_v0(n, timestamp_ms, random_hex) ==
    LET nm == NameStr_new(n)
        random == from_str_radix(random_hex)
    IN  IF ~nm.ok THEN Err(nm.err)
        ELSE IF Len(random_hex) # RandomHexLen
        THEN Err("random_hex must be exactly 16 hex characters (8 bytes)")
        ELSE IF ~random.ok THEN Err(random.err)
        ELSE Ok(DynamicTnid_to_string(
                 DynamicTnid_new_v0_with_parts(nm.name, F64AsU64(timestamp_ms),
                                               random.num)))

\* new_v1 as it would be had it called the V0 constructor on the two halves.
new_v1_calling_v0(n, random_hex) ==
    LET nm == NameStr_new(n)
        random == from_str_radix(random_hex)
    IN  IF ~nm.ok THEN Err(nm.err)
        ELSE IF Len(random_hex) # RandomHexLen + RandomHexLen
        THEN Err("random_hex must be exactly 32 hex characters (16 bytes)")
        ELSE IF ~random.ok THEN Err(random.err)
        ELSE Ok(DynamicTnid_to_string(
                 DynamicTnid_new_v0_with_parts(nm.name, random.num \div U64Space,
                                               random.num % U64Space)))

\* lib.rs:57  new_v1
new_v1(n, random_hex) ==
    LET nm == NameStr_new(n)
        random == from_str_radix(random_hex)
    IN  IF ~nm.ok THEN Err(nm.err)
        ELSE IF Len(random_hex) # RandomHexLen + RandomHexLen
        THEN Err("random_hex must be exactly 32 hex characters (16 bytes)")
        ELSE IF ~random.ok THEN Err(random.err)
        ELSE Ok(DynamicTnid_to_string(
                 DynamicTnid_new_v1_with_random(nm.name, random.num)))

\* lib.rs:77  to_uuid_string
to_uuid_string(tnid_str) ==
    LET t == DynamicTnid_parse_tnid_string(tnid_str)
    IN  IF ~t.ok THEN Err(t.err)
        ELSE Ok(DynamicTnid_to_uuid_string(t.tnid, "Lower"))

\* lib.rs:84  get_variant
get_variant(tnid_str) ==
    LET t == DynamicTnid_parse_tnid_string(tnid_str)
        v == DynamicTnid_variant(t.tnid)
    IN  IF ~t.ok THEN Err(t.err)
        ELSE Ok(IF v = "V0" THEN <<"v", "0">>
                ELSE IF v = "V1" THEN <<"v", "1">>
                ELSE IF v = "V2" THEN <<"v", "2">>
                ELSE <<"v", "3">>)

\* get_name as it would be with the last line of the other bindings.
get_name_returning_string(tnid_str) ==
    LET t == DynamicTnid_parse_tnid_string(tnid_str)
    IN  IF ~t.ok THEN Err(t.err)
        ELSE Ok(DynamicTnid_to_string(t.tnid))

\* lib.rs:97  get_name
get_name(tnid_str) ==
    LET t == DynamicTnid_parse_tnid_string(tnid_str)
    IN  IF ~t.ok THEN Err(t.err)
        ELSE Ok(DynamicTnid_name(t.tnid))

\* encrypt_v0_to_v1 as it would be had it fallen back to the TNID it was
\* given when the crate refuses.
encrypt_swallowing_error(tnid_str, key_hex) ==
    LET t == DynamicTnid_parse_tnid_string(tnid_str)
        k == EncryptionKey_from_hex(key_hex)
        encrypted == DynamicTnid_encrypt_v0_to_v1(t.tnid, k.key)
    IN  IF ~t.ok THEN Err(t.err)
        ELSE IF ~k.ok THEN Err(k.err)
        ELSE IF ~encrypted.ok THEN Ok(DynamicTnid_to_string(t.tnid))
        ELSE Ok(DynamicTnid_to_string(encrypted.tnid))

\* lib.rs:108  encrypt_v0_to_v1
encrypt_v0_to_v1(tnid_str, key_hex) ==
    LET t == DynamicTnid_parse_tnid_string(tnid_str)
        k == EncryptionKey_from_hex(key_hex)
        encrypted == DynamicTnid_encrypt_v0_to_v1(t.tnid, k.key)
    IN  IF ~t.ok THEN Err(t.err)
        ELSE IF ~k.ok THEN Err(k.err)
        ELSE IF ~encrypted.ok THEN Err(encrypted.err)
        ELSE Ok(DynamicTnid_to_string(encrypted.tnid))

\* decrypt_v1_to_v0 as it would be had it called the crate's encrypt.
decrypt_calling_encrypt(tnid_str, key_hex) ==
    LET t == DynamicTnid_parse_tnid_string(tnid_str)
        k == EncryptionKey_from_hex(key_hex)
        decrypted == DynamicTnid_encrypt_v0_to_v1(t.tnid, k.key)
    IN  IF ~t.ok THEN Err(t.err)
        ELSE IF ~k.ok THEN Err(k.err)
        ELSE IF ~decrypted.ok THEN Err(decrypted.err)
        ELSE Ok(DynamicTnid_to_string(decrypted.tnid))

\* decrypt_v1_to_v0 as it would be had it parsed the key but used none.
decrypt_ignoring_key(tnid_str, key_hex) ==
    LET t == DynamicTnid_parse_tnid_string(tnid_str)
        k == EncryptionKey_from_hex(key_hex)
        decrypted == DynamicTnid_decrypt_v1_to_v0(t.tnid, 0)
    IN  IF ~t.ok THEN Err(t.err)
        ELSE IF ~k.ok THEN Err(k.err)
        ELSE IF ~decrypted.ok THEN Err(decrypted.err)
        ELSE Ok(DynamicTnid_to_string(decrypted.tnid))

\* lib.rs:126  decrypt_v1_to_v0
decrypt_v1_to_v0(tnid_str, key_hex) ==
    LET t == DynamicTnid_parse_tnid_string(tnid_str)
        k == EncryptionKey_from_hex(key_hex)
        decrypted == DynamicTnid_decrypt_v1_to_v0(t.tnid, k.key)
    IN  IF ~t.ok THEN Err(t.err)
        ELSE IF ~k.ok THEN Err(k.err)
        ELSE IF ~decrypted.ok THEN Err(decrypted.err)
        ELSE Ok(DynamicTnid_to_string(decrypted.tnid))

\* is_valid_name as it would be had it looked at the length alone.
is_valid_name_by_length(n) == Len(n) >= 1 /\ Len(n) <= MaxNameLen

\* lib.rs:142  is_valid_name
is_valid_name(n) == NameStr_new(n).ok

\* ------------------------------------------------------------ arguments

\* Name arguments: every string of up to MaxNameLen + 1 characters over two
\* allowed characters and one that is not.
NameInputs == StringsOver({"a", "b", "!"}, 0, MaxNameLen + 1)

\* Names handed to the constructors.
CtorNames ==
    {<<>>, <<"a">>, <<"b">>, <<"!">>, <<"a", "!">>, <<"u", "s", "r">>,
     <<"a", "b", "a", "b">>, <<"a", "a", "a", "a", "a">>}

\* Names of the TNIDs handed to the other bindings.
TnidNames == {<<"a">>, <<"u", "s", "r">>, <<"a", "b", "a", "b">>}

\* Hex digits of the arguments: 0000, 0111, 1010, 1100 put every tag value
\* in a digit's top bits.
InputHexDigits == {"0", "7", "a", "c"}
OddHexChars == {"A", "+", "g"}

\* Hex arguments of the expected length len: all strings of the input digits
\* with at most one odd character, and one string a digit short, one a digit long.
HexInputs(len) ==
    {s \in [1..len -> InputHexDigits \cup OddHexChars] :
        Cardinality({i \in 1..len : s[i] \in OddHexChars}) <= 1}
    \cup {[i \in 1..(len - 1) |-> "7"], [i \in 1..(len + 1) |-> "7"]}

\* Timestamps: NaN, a negative double, the u64 values the input digits spell,
\* the largest u64, and two doubles beyond it.
F64Inputs ==
    {NaN, F64(-1), F64(U64Max), F64(U64Space), F64(U64Space + 1)}
    \cup {F64(HexValue(s)) : s \in [1..RandomHexLen -> InputHexDigits]}

\* Payloads: the values the input digits spell; every tag value occurs.
PayloadInputs ==
    {HexValue(s) : s \in [1..(RandomHexLen + RandomHexLen) -> InputHexDigits]}

\* The TNID values over those names and payloads, each tagged as its payload says.
TnidValues ==
    {Tnid(n, VariantOfTag(TagBits(p)), p) : n \in TnidNames, p \in PayloadInputs}

CanonicalTnids == {DynamicTnid_to_string(t) : t \in TnidValues}

\* Strings one edit away from s: a character replaced, dropped or appended.
EditChars == {"a", "!", ".", "0", "1", "w", "z", "W", "-"}
Edits(s) ==
    {[s EXCEPT ![i] = c] : i \in 1..Len(s), c \in EditChars}
    \cup {SubSeq(s, 1, i - 1) \o SubSeq(s, i + 1, Len(s)) : i \in 1..Len(s)}
    \cup {Append(s, c) : c \in EditChars}

\* One TNID of each variant to edit.
EditedPayloads == {HexValue([i \in 1..(RandomHexLen + RandomHexLen) |-> d]) :
                      d \in InputHexDigits}
EditedTnids ==
    UNION {Edits(DynamicTnid_to_string(Tnid(n, VariantOfTag(TagBits(p)), p))) :
              n \in TnidNames, p \in EditedPayloads}

\* TNID string arguments: for parse, the canonical strings and every edit; for
\* the other bindings the canonical strings and the edits of one of them.
ParseInputs == CanonicalTnids \cup EditedTnids \cup {<<>>}
TnidInputs ==
    CanonicalTnids
    \cup Edits(DynamicTnid_to_string(Tnid(<<"a">>, "V0", 0)))
    \cup Edits(DynamicTnid_to_string(Tnid(<<"a">>, "V1", encode_v1(0))))

\* Key arguments: every key over two digits, one short, one long, one not hex.
KeyDigits == {"0", "7"}
KeyInputs ==
    [1..KeyHexLen -> KeyDigits]
    \cup {[i \in 1..(KeyHexLen - 1) |-> "7"], [i \in 1..(KeyHexLen + 1) |-> "7"],
          [i \in 1..KeyHexLen |-> "g"]}

\* UUID string arguments: both renderings of every TNID value, and the edits
\* of one of them.
UuidInputs ==
    {DynamicTnid_to_uuid_string(t, c) : t \in TnidValues, c \in {"Lower", "Upper"}}
    \cup Edits(DynamicTnid_to_uuid_string(Tnid(<<"a", "b", "a", "b">>, "V0", 0), "Lower"))

\* ------------------------------------------------------------ state machine

NoString == <<>>
NoResult == [ok |-> FALSE, val |-> <<>>, err |-> "none"]

\* A call is set up: the binding and its arguments are chosen, nothing has run.
Setup(o, n, t, h, f, k, u) ==
    /\ pc = "call"
    /\ op = o
    /\ name = n
    /\ tnid = t
    /\ hex = h
    /\ ts = f
    /\ key = k
    /\ uuid = u
    /\ result = NoResult
    /\ valid = FALSE

Init ==
    \/ \E t \in ParseInputs :
          Setup("parse", NoString, t, NoString, F64(0), NoString, NoString)
    \/ \E n \in TnidNames, u \in UuidInputs :
          Setup("parse_uuid", n, NoString, NoString, F64(0), NoString, u)
    \/ \E n \in CtorNames, f \in F64Inputs, h \in HexInputs(RandomHexLen) :
          Setup("new_v0", n, NoString, h, f, NoString, NoString)
    \/ \E n \in CtorNames, h \in HexInputs(RandomHexLen + RandomHexLen) :
          Setup("new_v1", n, NoString, h, F64(0), NoString, NoString)
    \/ \E t \in TnidInputs :
          Setup("to_uuid_string", NoString, t, NoString, F64(0), NoString, NoString)
    \/ \E t \in TnidInputs :
          Setup("get_variant", NoString, t, NoString, F64(0), NoString, NoString)
    \/ \E t \in TnidInputs :
          Setup("get_name", NoString, t, NoString, F64(0), NoString, NoString)
    \/ \E t \in TnidInputs, k \in KeyInputs :
          Setup("encrypt_v0_to_v1", NoString, t, NoString, F64(0), k, NoString)
    \/ \E t \in TnidInputs, k \in KeyInputs :
          Setup("decrypt_v1_to_v0", NoString, t, NoString, F64(0), k, NoString)
    \/ \E n \in NameInputs :
          Setup("is_valid_name", n, NoString, NoString, F64(0), NoString, NoString)

\* The arguments of a call stay as they were set up.
ArgsUnchanged == UNCHANGED <<op, name, tnid, hex, ts, key, uuid>>

\* One action per binding: the call that was set up runs and returns.
Parse ==
    /\ pc = "call"
    /\ op = "parse"
    /\ result' = parse(tnid)
    /\ pc' = "done"
    /\ UNCHANGED valid
    /\ ArgsUnchanged

ParseUuid ==
    /\ pc = "call"
    /\ op = "parse_uuid"
    /\ result' = parse_uuid(uuid)
    /\ pc' = "done"
    /\ UNCHANGED valid
    /\ ArgsUnchanged

NewV0 ==
    /\ pc = "call"
    /\ op = "new_v0"
    /\ result' = new_v0(name, ts, hex)
    /\ pc' = "done"
    /\ UNCHANGED valid
    /\ ArgsUnchanged

NewV1 ==
    /\ pc = "call"
    /\ op = "new_v1"
    /\ result' = new_v1(name, hex)
    /\ pc' = "done"
    /\ UNCHANGED valid
    /\ ArgsUnchanged

ToUuidString ==
    /\ pc = "call"
    /\ op = "to_uuid_string"
    /\ result' = to_uuid_string(tnid)
    /\ pc' = "done"
    /\ UNCHANGED valid
    /\ ArgsUnchanged

GetVariant ==
    /\ pc = "call"
    /\ op = "get_variant"
    /\ result' = get_variant(tnid)
    /\ pc' = "done"
    /\ UNCHANGED valid
    /\ ArgsUnchanged

GetName ==
    /\ pc = "call"
    /\ op = "get_name"
    /\ result' = get_name(tnid)
    /\ pc' = "done"
    /\ UNCHANGED valid
    /\ ArgsUnchanged

EncryptV0ToV1 ==
    /\ pc = "call"
    /\ op = "encrypt_v0_to_v1"
    /\ result' = encrypt_v0_to_v1(tnid, key)
    /\ pc' = "done"
    /\ UNCHANGED valid
    /\ ArgsUnchanged

DecryptV1ToV0 ==
    /\ pc = "call"
    /\ op = "decrypt_v1_to_v0"
    /\ result' = decrypt_v1_to_v0(tnid, key)
    /\ pc' = "done"
    /\ UNCHANGED valid
    /\ ArgsUnchanged

\* is_valid_name returns a boolean and cannot fail.
IsValidName ==
    /\ pc = "call"
    /\ op = "is_valid_name"
    /\ valid' = is_valid_name(name)
    /\ pc' = "done"
    /\ UNCHANGED result
    /\ ArgsUnchanged

Next ==
    \/ Parse
    \/ ParseUuid
    \/ NewV0
    \/ NewV1
    \/ ToUuidString
    \/ GetVariant
    \/ GetName
    \/ EncryptV0ToV1
    \/ DecryptV1ToV0
    \/ IsValidName

Spec == Init /\ [][Next]_vars

TypeOK ==
    /\ pc \in {"call", "done"}
    /\ result.ok \in BOOLEAN
    /\ valid \in BOOLEAN

\* ------------------------------------------------------------ properties

\* The call of binding o has returned.
Done(o) == pc = "done" /\ op = o

\* The TNID value a string stands for.
Parsed(s) == DynamicTnid_parse_tnid_string(s)

IsTnidOf(s, v) == Parsed(s).ok /\ Parsed(s).tnid.variant = v

ValidKey(k) == EncryptionKey_from_hex(k).ok

\* The string get_variant reports for variant v.
VariantName(v) == <<"v", VariantTokens[TagOfVariant(v) + 1]>>

\* C1: encrypting a V0 TNID and decrypting the answer with the same key gives
\* back the TNID it started from: the same string, hence the same name,
\* variant and payload.
C1_EncryptDecryptRoundTrip ==
    (Done("encrypt_v0_to_v1") /\ IsTnidOf(tnid, "V0") /\ ValidKey(key)) =>
        /\ result.ok
        /\ decrypt_v1_to_v0(result.val, key) = Ok(tnid)
        /\ Parsed(decrypt_v1_to_v0(result.val, key).val) = Parsed(tnid)

C1_Witness ==
    /\ Done("encrypt_v0_to_v1")
    /\ IsTnidOf(tnid, "V0")
    /\ ValidKey(key)
    /\ result.ok
    /\ Parsed(result.val).tnid.payload # Unblock(Block(Parsed(tnid).tnid.payload), "V1")
    /\ decrypt_v1_to_v0(result.val, key).val = tnid

\* C2: with a valid key, encrypt_v0_to_v1 of a TNID that is not V0 and
\* decrypt_v1_to_v0 of a TNID that is not V1 return the error WrongVariant and
\* no TNID.
C2_WrongVariantRejected ==
    /\ (Done("encrypt_v0_to_v1") /\ Parsed(tnid).ok /\ ~IsTnidOf(tnid, "V0")
            /\ ValidKey(key))
          => (~result.ok /\ result.err = "WrongVariant" /\ result.val = NoString)
    /\ (Done("decrypt_v1_to_v0") /\ Parsed(tnid).ok /\ ~IsTnidOf(tnid, "V1")
            /\ ValidKey(key))
          => (~result.ok /\ result.err = "WrongVariant" /\ result.val = NoString)

C2_Witness ==
    /\ Done("encrypt_v0_to_v1")
    /\ IsTnidOf(tnid, "V2")
    /\ ValidKey(key)
    /\ result.err = "WrongVariant"

\* The timestamp and random number new_v0 was called with, as u64 values.
InU64(x) == ~x.nan /\ x.val >= 0 /\ x.val <= U64Max
RandomArg == from_str_radix(hex).num

C4_TnidStringRoundTrip ==
    Done("parse") =>
        \A t \in TnidValues :
            tnid = DynamicTnid_to_string(t) =>
                /\ result.ok
                /\ Parsed(result.val) = TnidOk(t)
                /\ get_name(result.val) = Ok(t.name)
                /\ get_variant(result.val) = Ok(VariantName(t.variant))

C4_Witness ==
    /\ Done("parse")
    /\ result.ok
    /\ \E t \in TnidValues :
          /\ tnid = DynamicTnid_to_string(t)
          /\ t.variant = "V3"
          /\ Len(t.name) = MaxNameLen
          /\ Parsed(result.val).tnid = t

\* The UUID text of payload p in either case, under the name digits of n.
IsUuidOf(u, n, p) ==
    \E c \in {"Lower", "Upper"} :
        u = DynamicTnid_to_uuid_string(Tnid(n, VariantOfTag(TagBits(p)), p), c)

\* C5 as stated: parsing the UUID text of a payload together with a name the
\* caller gives returns the TNID with that name and the variant and payload
\* of the text, whichever case the text is in.
C5_ParseUuidUsesGivenName ==
    (Done("parse_uuid") /\ NameStr_new(name).ok
        /\ \E t \in TnidValues : IsUuidOf(uuid, t.name, t.payload)) =>
        /\ result.ok
        /\ get_name(result.val) = Ok(name)
        /\ \A t \in TnidValues :
              IsUuidOf(uuid, t.name, t.payload) =>
                  /\ Parsed(result.val).tnid.payload = t.payload
                  /\ Parsed(result.val).tnid.variant = t.variant

\* C6: a TNID returned by a constructor or a transform carries the variant
\* its payload's tag bits encode, get_variant reports that variant, and it is
\* V0 from new_v0 and decrypt_v1_to_v0, V1 from new_v1 and encrypt_v0_to_v1.
ReturnsTnid ==
    op \in {"parse", "parse_uuid", "new_v0", "new_v1",
            "encrypt_v0_to_v1", "decrypt_v1_to_v0"}

C6_VariantMatchesTag ==
    (pc = "done" /\ ReturnsTnid /\ result.ok) =>
        LET t == Parsed(result.val)
            v == VariantOfTag(TagBits(t.tnid.payload))
        IN  /\ t.ok
            /\ t.tnid.variant = v
            /\ get_variant(result.val) = Ok(VariantName(v))
            /\ op \in {"new_v0", "decrypt_v1_to_v0"} => v = "V0"
            /\ op \in {"new_v1", "encrypt_v0_to_v1"} => v = "V1"

C6_Witness ==
    /\ Done("new_v1")
    /\ result.ok
    /\ TagBits(RandomArg) = TagOfVariant("V2")
    /\ get_variant(result.val) = Ok(<<"v", "1">>)

\* Whether every character of n is an allowed one.
AllowedChars == {NameAlphabet[i] : i \in 1..Len(NameAlphabet)}
AllAllowed(n) == \A i \in 1..Len(n) : n[i] \in AllowedChars

\* C7: is_valid_name holds exactly of the strings of 1 to 4 allowed
\* characters; a constructor given an empty or too long name fails with
\* InvalidLength, and given a name of 1 to 4 characters with one that is not
\* allowed fails with InvalidCharacter.
C7_NameValidation ==
    /\ Done("is_valid_name") =>
          (valid <=> (Len(name) >= 1 /\ Len(name) <= MaxNameLen /\ AllAllowed(name)))
    /\ (pc = "done" /\ op \in {"new_v0", "new_v1"}) =>
          /\ (Len(name) = 0 \/ Len(name) > MaxNameLen)
                => (~result.ok /\ result.err = "InvalidLength")
          /\ (Len(name) >= 1 /\ Len(name) <= MaxNameLen /\ ~AllAllowed(name))
                => (~result.ok /\ result.err = "InvalidCharacter")
          /\ (Len(name) >= 1 /\ Len(name) <= MaxNameLen /\ AllAllowed(name))
                => result.err \notin {"InvalidLength", "InvalidCharacter"}
          /\ is_valid_name(name) <=> result.err \notin {"InvalidLength", "InvalidCharacter"}

C7_Witness ==
    /\ Done("is_valid_name")
    /\ Len(name) = MaxNameLen
    /\ \E i \in 1..Len(name) : name[i] # name[1]
    /\ valid

\* C8: decrypt_v1_to_v0 of a V1 TNID succeeds under every valid key, also one
\* the TNID was not encrypted with, and returns a TNID whose payload carries
\* the V0 tag.
C8_DecryptAnyKeySucceeds ==
    (Done("decrypt_v1_to_v0") /\ IsTnidOf(tnid, "V1") /\ ValidKey(key)) =>
        /\ result.ok
        /\ Parsed(result.val).ok
        /\ TagBits(Parsed(result.val).tnid.payload) = TagOfVariant("V0")

C8_Witness ==
    /\ Done("decrypt_v1_to_v0")
    /\ ValidKey(key)
    /\ result.ok
    /\ \E s \in CanonicalTnids, k \in KeyInputs :
          /\ k # key
          /\ encrypt_v0_to_v1(s, k) = Ok(tnid)
          /\ result.val # s
          /\ IsTnidOf(result.val, "V0")

\* C9: a transform that succeeds returns a TNID with the name of the TNID it
\* was given.
C9_TransformKeepsName ==
    (pc = "done" /\ op \in {"encrypt_v0_to_v1", "decrypt_v1_to_v0"} /\ result.ok) =>
        /\ get_name(result.val).ok
        /\ get_name(result.val) = get_name(tnid)
        /\ get_name(result.val).val = Parsed(tnid).tnid.name

C9_Witness ==
    /\ Done("decrypt_v1_to_v0")
    /\ result.ok
    /\ result.val # tnid
    /\ get_name(tnid) = Ok(<<"u", "s", "r">>)
    /\ get_name(result.val) = Ok(<<"u", "s", "r">>)

\* C10: parse returns the string it was given when that string is a valid
\* TNID string, and an error and no string when it is not.
C10_ParseReturnsInput ==
    Done("parse") =>
        /\ result.ok => result.val = tnid
        /\ Parsed(tnid).ok => result = Ok(tnid)
        /\ ~Parsed(tnid).ok =>
              /\ ~result.ok
              /\ result.val = NoString
              /\ result.err \in {"MalformedString", "UnknownVariant"}

C10_Witness ==
    /\ Done("parse")
    /\ tnid \in EditedTnids
    /\ result.ok
    /\ result.val = tnid

====
